---- MODULE Spec2Model ----
(***************************************************************************)
(* fastapi-todo-api: the authentication gate (app/routes/auth.py,          *)
(* app/security.py) and the task routes (app/routes/tasks.py) over the     *)
(* users and tasks tables (app/models.py).                                  *)
(*                                                                          *)
(* Text values (titles, descriptions, search strings) are sequences of     *)
(* one-character strings, so that LIKE matching, lower-casing and          *)
(* ordering are computed character by character.  An optional value        *)
(* (Optional[...] in the schemas, a nullable column, an absent JWT claim)  *)
(* is a sequence of length 0 (None / NULL) or 1 (the value).               *)
(* A JSON request body is a function from the field names it carries to    *)
(* optional values; a field that is absent is not in its DOMAIN.           *)
(***************************************************************************)
EXTENDS Integers, Sequences, FiniteSets, TLC

VARIABLES
    users,      \* rows of table "users": sequence of [id, username, password]
    tasks,      \* rows of table "tasks": set of [id, title, description, status, user_id]
    nextId,     \* next value of the tasks.id sequence
    clock,      \* wall clock, in minutes
    minted,     \* a token obtained from create_access_token directly, with its
                \* arguments: [token, subject, expires_minutes, at]
    sessions    \* the requests being served step by step, each in its own
                \* database session: [pc, op, who, uid, id, row, fresh, code, body]

vars == <<users, tasks, nextId, clock, minted, sessions>>

None == << >>
Some(v) == <<v>>

-----------------------------------------------------------------------------
(* Bounds of the model                                                      *)

\* number of tasks ever created in a behaviour
MaxTasks == 2

\* number of rows of the tasks table the listing engine is queried over
MaxRows == 3

\* number of requests served concurrently
MaxSessions == 2

-----------------------------------------------------------------------------
(* app/security.py                                                          *)

SECRET_KEY == "dev-secret-change-me"
ACCESS_TOKEN_EXPIRE_MINUTES == 1440

\* salts bcrypt may draw
Salts == {"s1"}

\* bcrypt reads the first 72 bytes of a password and no more
BcryptMaxBytes == 72
Truncated(plain) ==
    SubSeq(plain, 1, IF Len(plain) < BcryptMaxBytes THEN Len(plain) ELSE BcryptMaxBytes)

\* _pwd.hash: a salted one-way digest of what bcrypt reads of the password; the
\* digest string is kept abstract as scheme, salt and preimage, and is read only
\* by verify_password
hash_password(plain, salt) == "$2b$" \o salt \o "$" \o Truncated(plain)

\* the salt a digest string carries
SaltOf(hashed) == SubSeq(hashed, 5, 6)

\* _pwd.verify: recompute under the stored salt and compare
verify_password(plain, hashed) == hash_password(plain, SaltOf(hashed)) = hashed

\* str(int) on the ids in use
Digits == <<"0", "1", "2", "3", "4", "5", "6", "7", "8", "9">>
Str(n) == Digits[n + 1]

\* int(str): the decimal strings in use, a leading zero accepted as Python does;
\* anything else raises ValueError
IntTable == {<<Str(n), n>> : n \in 0..9} \cup {<<"01", 1>>, <<"02", 2>>}
IntParse(s) ==
    IF \E p \in IntTable : p[1] = s
    THEN [ok |-> TRUE, v |-> (CHOOSE p \in IntTable : p[1] = s)[2]]
    ELSE [ok |-> FALSE, v |-> 0]

\* a bearer credential as the server sees it: no Authorization header, a string
\* that is no JWT, or a JWT with its claims and the key that signed it
NoToken == [kind |-> "none"]
Garbage == [kind |-> "garbage"]
Jwt(sub, exp, key) == [kind |-> "jwt", sub |-> sub, exp |-> exp, key |-> key]

\* create_access_token with its expires_minutes argument written out
\* (None when the caller omits it): `expires_minutes or DEFAULT`
TokenTtl(expires_minutes) ==
    IF expires_minutes = None \/ expires_minutes = Some(0)
    THEN ACCESS_TOKEN_EXPIRE_MINUTES
    ELSE expires_minutes[1]

create_access_token(subject, expires_minutes, now) ==
    Jwt(Some(Str(subject)), now + TokenTtl(expires_minutes), SECRET_KEY)

\* decode_token that skips the expiry check
decode_token_ignoring_exp(token, now) ==
    IF token.kind # "jwt" THEN [ok |-> FALSE, sub |-> None]
    ELSE IF token.key # SECRET_KEY THEN [ok |-> FALSE, sub |-> None]
    ELSE [ok |-> TRUE, sub |-> token.sub]

\* jwt.decode: signature, then exp (jose rejects when exp < now)
decode_token(token, now) ==
    IF token.kind # "jwt" THEN [ok |-> FALSE, sub |-> None]
    ELSE IF token.key # SECRET_KEY THEN [ok |-> FALSE, sub |-> None]
    ELSE IF token.exp < now THEN [ok |-> FALSE, sub |-> None]
    ELSE [ok |-> TRUE, sub |-> token.sub]

-----------------------------------------------------------------------------
(* app/routes/auth.py                                                       *)

UserIds == {users[i].id : i \in DOMAIN users}
UserById(uid) == users[CHOOSE i \in DOMAIN users : users[i].id = uid]

\* get_current_user: [ok, id]; ok = FALSE is the 401 cred_exc (also raised by
\* oauth2_scheme when the Authorization header is missing)
get_current_user(token) ==
    LET fail == [ok |-> FALSE, id |-> 0]
        d == decode_token(token, clock)
    IN  IF token.kind = "none" THEN fail
        ELSE IF ~d.ok THEN fail
        ELSE IF d.sub = None THEN fail
        ELSE LET p == IntParse(d.sub[1])
             IN  IF ~p.ok THEN fail
                 ELSE IF p.v = 0 THEN fail
                 ELSE IF p.v \notin UserIds THEN fail
                 ELSE [ok |-> TRUE, id |-> p.v]

\* a response: status code, body, the tasks table after the request, and the
\* number of commits the handler issued
Resp(code, body, ts, commits) ==
    [code |-> code, body |-> body, tasks |-> ts, commits |-> commits]

Detail(msg) == [detail |-> msg]

Unauthorized(ts) == Resp(401, Detail("Could not validate credentials"), ts, 0)
Unprocessable(ts) == Resp(422, Detail("validation error"), ts, 0)

\* UserOut
UserOut(u) == [id |-> u.id, username |-> u.username]

\* GET /auth/me
me(ts, token) ==
    LET auth == get_current_user(token)
    IN  IF ~auth.ok THEN Unauthorized(ts)
        ELSE Resp(200, UserOut(UserById(auth.id)), ts, 0)

-----------------------------------------------------------------------------
(* Text: lower-casing, LIKE patterns, ordering                              *)

Min(a, b) == IF a < b THEN a ELSE b

\* the characters in use, in code-point order
CharOrder == <<"%", "A", "B", "M", "_", "a", "b", "i", "k", "l", "m">>
CharRank(c) == CHOOSE i \in DOMAIN CharOrder : CharOrder[i] = c

LowerMap == [A |-> "a", B |-> "b", M |-> "m"]
Lower(c) == IF c \in DOMAIN LowerMap THEN LowerMap[c] ELSE c
LowerStr(s) == [i \in DOMAIN s |-> Lower(s[i])]

\* SQL LIKE: % matches any run of characters, _ any one character
RECURSIVE Like(_, _)
Like(s, p) ==
    IF p = << >> THEN s = << >>
    ELSE IF Head(p) = "%"
         THEN Like(s, Tail(p)) \/ (s # << >> /\ Like(Tail(s), p))
    ELSE IF Head(p) = "_"
         THEN s # << >> /\ Like(Tail(s), Tail(p))
    ELSE s # << >> /\ Head(s) = Head(p) /\ Like(Tail(s), Tail(p))

\* column.ilike(pattern): case-insensitive LIKE; NULL ILIKE p is not true
ilike(col, pattern) ==
    col # None /\ Like(LowerStr(col[1]), LowerStr(pattern))

\* a < b for text, by code point
TextLess(a, b) ==
    \E i \in 1..(Min(Len(a), Len(b)) + 1) :
        /\ \A j \in 1..(i - 1) : a[j] = b[j]
        /\ \/ i > Len(a) /\ i <= Len(b)
           \/ i <= Len(a) /\ i <= Len(b) /\ CharRank(a[i]) < CharRank(b[i])

-----------------------------------------------------------------------------
(* app/models.py, app/schemas.py                                            *)

\* TaskStatus, in declaration order (the order of the database enum)
TaskStatusValues == <<"New", "In Progress", "Completed">>
COMPLETED == "Completed"
StatusRank(s) == CHOOSE i \in DOMAIN TaskStatusValues : TaskStatusValues[i] = s

\* StatusLiteral
StatusLiteral == {"New", "In Progress", "Completed"}

MinTitleLen == 1
MaxTitleLen == 200
MinPasswordLen == 6
MaxLimit == 100

\* models.Task(...) as a row
Task(id, title, description, status, user_id) ==
    [id |-> id, title |-> title, description |-> description,
     status |-> status, user_id |-> user_id]

\* TaskOut: Enum rendered as its value
TaskOut(t) == t

\* a title accepted whatever its length
TitleOk_any_length(v) == v # None

\* title: str = Field(min_length=1, max_length=200), given as an optional value
TitleOk(v) == v # None /\ Len(v[1]) >= MinTitleLen /\ Len(v[1]) <= MaxTitleLen

\* TaskCreate validates: title required, description optional, status a
\* StatusLiteral when given
TaskCreateValid(payload) ==
    /\ "title" \in DOMAIN payload /\ TitleOk(payload.title)
    /\ "status" \in DOMAIN payload =>
           payload.status # None /\ payload.status[1] \in StatusLiteral

\* TaskCreate after validation, defaults filled in
TaskCreate(payload) ==
    [title |-> payload.title[1],
     description |-> IF "description" \in DOMAIN payload
                     THEN payload.description ELSE None,
     status |-> IF "status" \in DOMAIN payload THEN payload.status[1] ELSE "New"]

\* TaskUpdate with status declared a plain optional string
TaskUpdateValid_any_status(payload) ==
    "title" \in DOMAIN payload => payload.title = None \/ TitleOk(payload.title)

\* TaskUpdate validates: every field optional and nullable
TaskUpdateValid(payload) ==
    /\ "title" \in DOMAIN payload =>
           payload.title = None \/ TitleOk(payload.title)
    /\ "status" \in DOMAIN payload =>
           payload.status = None \/ payload.status[1] \in StatusLiteral

\* model_dump of a TaskUpdate that keeps the fields the schema does not declare
model_dump_keeps_extras(payload) == payload

\* TaskUpdate(...).model_dump(exclude_unset=True): the fields of the schema the
\* body carries; fields the schema does not declare are ignored
TaskUpdateFields == {"title", "description", "status"}
model_dump(payload) ==
    [f \in DOMAIN payload \cap TaskUpdateFields |-> payload[f]]

\* PaginatedTasks declares items, total, page, limit; a keyword it does not
\* declare is ignored by the model constructor
PaginatedTasks(items, total, page, limit, total_pages) ==
    [items |-> items, total |-> total, page |-> page, limit |-> limit]

-----------------------------------------------------------------------------
(* app/routes/tasks.py: the listing engine                                  *)

SortFields == {"id", "title", "status", "user_id"}
SortDirs == {"asc", "desc"}

_order_column(sort_by) ==
    IF sort_by = "title" THEN "title"
    ELSE IF sort_by = "status" THEN "status"
    ELSE IF sort_by = "user_id" THEN "user_id"
    ELSE "id"

\* a.col < b.col in the column's own order
ColLess(col, a, b) ==
    IF col = "title" THEN TextLess(a.title, b.title)
    ELSE IF col = "status" THEN StatusRank(a.status) < StatusRank(b.status)
    ELSE a[col] < b[col]

\* ORDER BY order_expr, tasks.id ASC: the tie-break reversed
RowBefore_tie_ascending(a, b, col, sort_dir) ==
    LET first == IF sort_dir = "asc" THEN ColLess(col, a, b) ELSE ColLess(col, b, a)
        tied  == ~ColLess(col, a, b) /\ ~ColLess(col, b, a)
    IN  first \/ (tied /\ a.id < b.id)

\* ORDER BY order_expr, tasks.id DESC: a sorts before b
RowBefore(a, b, col, sort_dir) ==
    LET first == IF sort_dir = "asc" THEN ColLess(col, a, b) ELSE ColLess(col, b, a)
        tied  == ~ColLess(col, a, b) /\ ~ColLess(col, b, a)
    IN  first \/ (tied /\ a.id > b.id)

RECURSIVE order_by(_, _, _)
order_by(rows, col, sort_dir) ==
    IF rows = {} THEN << >>
    ELSE LET r == CHOOSE x \in rows :
                      \A y \in rows \ {x} : RowBefore(x, y, col, sort_dir)
         IN  <<r>> \o order_by(rows \ {r}, col, sort_dir)

\* a page that runs one row into the next page
Paginate_one_too_many(sorted, off, lim) ==
    SubSeq(sorted, off + 1, Min(off + lim + 1, Len(sorted)))

\* .offset(off).limit(lim)
Paginate(sorted, off, lim) == SubSeq(sorted, off + 1, Min(off + lim, Len(sorted)))

\* a status filter that selects nothing out
WhereStatus_ignored(rows, status_filter) == rows

\* the WHERE clauses of list_tasks / list_my_tasks
WhereStatus(rows, status_filter) ==
    IF status_filter # None
    THEN {t \in rows : t.status = status_filter[1]}
    ELSE rows

WhereSearch(rows, q) ==
    IF q # None /\ q[1] # << >>
    THEN LET like == <<"%">> \o q[1] \o <<"%">>
         IN  {t \in rows : ilike(Some(t.title), like) \/ ilike(t.description, like)}
    ELSE rows

\* (total + limit - 1) // limit
TotalPages(total, limit) == (total + limit - 1) \div limit

\* validation that lets any sort_by through
ListParamsValid_any_sort_by(p) ==
    /\ p.status # None => p.status[1] \in StatusLiteral
    /\ p.sort_dir \in SortDirs
    /\ p.page >= 1
    /\ p.limit >= 1 /\ p.limit <= MaxLimit

\* the query parameters pass FastAPI's validation
ListParamsValid(p) ==
    /\ p.status # None => p.status[1] \in StatusLiteral
    /\ p.sort_by \in SortFields
    /\ p.sort_dir \in SortDirs
    /\ p.page >= 1
    /\ p.limit >= 1 /\ p.limit <= MaxLimit

\* the body shared by list_tasks and list_my_tasks, from the scoped statement on
ListBody(ts, stmt, p) ==
    LET rows        == WhereSearch(WhereStatus(stmt, p.status), p.q)
        total       == Cardinality(rows)
        total_pages == TotalPages(total, p.limit)
        col         == _order_column(p.sort_by)
        items       == Paginate(order_by(rows, col, p.sort_dir),
                                (p.page - 1) * p.limit, p.limit)
    IN  Resp(200, PaginatedTasks([i \in DOMAIN items |-> TaskOut(items[i])],
                                 total, p.page, p.limit, total_pages), ts, 0)

\* GET /tasks
list_tasks(ts, token, p) ==
    LET auth == get_current_user(token)
    IN  IF ~auth.ok THEN Unauthorized(ts)
        ELSE IF ~ListParamsValid(p) THEN Unprocessable(ts)
        ELSE ListBody(ts, ts, p)

\* list_my_tasks without the WHERE user_id = current_user.id clause
list_my_tasks_unscoped(ts, token, p) ==
    LET auth == get_current_user(token)
    IN  IF ~auth.ok THEN Unauthorized(ts)
        ELSE IF ~ListParamsValid(p) THEN Unprocessable(ts)
        ELSE ListBody(ts, ts, p)

\* GET /tasks/mine
list_my_tasks(ts, token, p) ==
    LET auth == get_current_user(token)
    IN  IF ~auth.ok THEN Unauthorized(ts)
        ELSE IF ~ListParamsValid(p) THEN Unprocessable(ts)
        ELSE ListBody(ts, {t \in ts : t.user_id = auth.id}, p)

-----------------------------------------------------------------------------
(* app/routes/tasks.py: single-task operations                              *)

NotFound(ts) == Resp(404, Detail("Task not found"), ts, 0)
Forbidden(ts) == Resp(403, Detail("You are not the owner of this task"), ts, 0)

\* db.get(models.Task, task_id): the row, or None
db_get(ts, task_id) ==
    IF \E t \in ts : t.id = task_id
    THEN Some(CHOOSE t \in ts : t.id = task_id)
    ELSE None

\* models.TaskStatus(value) raises ValueError outside the enumeration
IsTaskStatus(s) == \E i \in DOMAIN TaskStatusValues : TaskStatusValues[i] = s

\* get_task that serves a task to its owner only
get_task_owner_only(ts, token, task_id) ==
    LET auth == get_current_user(token)
        task == db_get(ts, task_id)
    IN  IF ~auth.ok THEN Unauthorized(ts)
        ELSE IF task = None THEN NotFound(ts)
        ELSE IF task[1].user_id # auth.id THEN Forbidden(ts)
        ELSE Resp(200, TaskOut(task[1]), ts, 0)

\* GET /tasks/{task_id}
get_task(ts, token, task_id) ==
    LET auth == get_current_user(token)
        task == db_get(ts, task_id)
    IN  IF ~auth.ok THEN Unauthorized(ts)
        ELSE IF task = None THEN NotFound(ts)
        ELSE Resp(200, TaskOut(task[1]), ts, 0)

\* create_task that takes the owner from the body when the body names one
create_task_owner_from_payload(ts, nid, token, payload) ==
    LET auth == get_current_user(token)
    IN  IF ~auth.ok THEN Unauthorized(ts)
        ELSE IF ~TaskCreateValid(payload) THEN Unprocessable(ts)
        ELSE LET p == TaskCreate(payload)
                 owner == IF "user_id" \in DOMAIN payload
                          THEN payload.user_id[1] ELSE auth.id
                 task == Task(nid, p.title, p.description, p.status, owner)
             IN  Resp(201, TaskOut(task), ts \cup {task}, 1)

\* POST /tasks; nid is the id the database assigns
create_task(ts, nid, token, payload) ==
    LET auth == get_current_user(token)
    IN  IF ~auth.ok THEN Unauthorized(ts)
        ELSE IF ~TaskCreateValid(payload) THEN Unprocessable(ts)
        ELSE LET p == TaskCreate(payload)
                 task == Task(nid, p.title, p.description, p.status, auth.id)
             IN  IF ~IsTaskStatus(p.status)
                 THEN Resp(400, Detail("Invalid status"), ts, 0)
                 ELSE IF auth.id \notin UserIds
                 THEN Resp(400, Detail("Integrity error"), ts, 0)
                 ELSE Resp(201, TaskOut(task), ts \cup {task}, 1)

\* complete_task that writes and commits whatever the current status
complete_task_always_commits(ts, token, task_id) ==
    LET auth == get_current_user(token)
        task == db_get(ts, task_id)
    IN  IF ~auth.ok THEN Unauthorized(ts)
        ELSE IF task = None THEN NotFound(ts)
        ELSE IF task[1].user_id # auth.id THEN Forbidden(ts)
        ELSE LET done == [task[1] EXCEPT !.status = COMPLETED]
             IN  Resp(200, TaskOut(done), (ts \ {task[1]}) \cup {done}, 1)

\* PATCH /tasks/{task_id}/complete
complete_task(ts, token, task_id) ==
    LET auth == get_current_user(token)
        task == db_get(ts, task_id)
    IN  IF ~auth.ok THEN Unauthorized(ts)
        ELSE IF task = None THEN NotFound(ts)
        ELSE IF task[1].user_id # auth.id THEN Forbidden(ts)
        ELSE IF task[1].status # COMPLETED
             THEN LET done == [task[1] EXCEPT !.status = COMPLETED]
                  IN  Resp(200, TaskOut(done), (ts \ {task[1]}) \cup {done}, 1)
             ELSE Resp(200, TaskOut(task[1]), ts, 0)

\* the row after `for field, value in data.items(): setattr(task, field, value)`;
\* title and status are NOT NULL columns, description is nullable
SetAttrs(task, data) ==
    [f \in DOMAIN task |->
        IF f \notin DOMAIN data THEN task[f]
        ELSE IF f = "description" THEN data[f]
        ELSE data[f][1]]

\* PATCH /tasks/{task_id}
update_task(ts, token, task_id, payload) ==
    LET auth == get_current_user(token)
        task == db_get(ts, task_id)
        data == model_dump(payload)
    IN  IF ~auth.ok THEN Unauthorized(ts)
        ELSE IF ~TaskUpdateValid(payload) THEN Unprocessable(ts)
        ELSE IF task = None THEN NotFound(ts)
        ELSE IF task[1].user_id # auth.id THEN Forbidden(ts)
        ELSE IF "status" \in DOMAIN data /\ data.status # None
                /\ ~IsTaskStatus(data.status[1])
             THEN Resp(400, Detail("Invalid status"), ts, 0)
        ELSE IF \E f \in {"title", "status"} : f \in DOMAIN data /\ data[f] = None
             \* NULL in a NOT NULL column: the commit raises IntegrityError, which
             \* the handler does not catch; the session closes without a commit
             THEN Resp(500, Detail("Internal Server Error"), ts, 0)
        ELSE LET new == SetAttrs(task[1], data)
             IN  Resp(200, TaskOut(new), (ts \ {task[1]}) \cup {new}, 1)

\* delete_task that answers 204 and commits with the row still there
delete_task_keeps_row(ts, token, task_id) ==
    LET auth == get_current_user(token)
        task == db_get(ts, task_id)
    IN  IF ~auth.ok THEN Unauthorized(ts)
        ELSE IF task = None THEN NotFound(ts)
        ELSE IF task[1].user_id # auth.id THEN Forbidden(ts)
        ELSE Resp(204, None, ts, 1)

\* DELETE /tasks/{task_id}
delete_task(ts, token, task_id) ==
    LET auth == get_current_user(token)
        task == db_get(ts, task_id)
    IN  IF ~auth.ok THEN Unauthorized(ts)
        ELSE IF task = None THEN NotFound(ts)
        ELSE IF task[1].user_id # auth.id THEN Forbidden(ts)
        ELSE Resp(204, None, ts \ {task[1]}, 1)

-----------------------------------------------------------------------------
(* app/routes/auth.py: register, login                                      *)

\* register with no check of the password's length
register_any_password(us, payload, salt) ==
    IF \E i \in DOMAIN us : us[i].username = payload.username
    THEN [code |-> 400, users |-> us]
    ELSE [code |-> 200,
          users |-> Append(us, [id |-> Len(us) + 1,
                                username |-> payload.username,
                                password |-> hash_password(payload.password, salt)])]

\* POST /auth/register: [code, users]
register(us, payload, salt) ==
    IF Len(payload.password) < MinPasswordLen
    THEN [code |-> 422, users |-> us]
    ELSE IF \E i \in DOMAIN us : us[i].username = payload.username
    \* unique constraint on users.username: IntegrityError, rollback
    THEN [code |-> 400, users |-> us]
    ELSE [code |-> 200,
          users |-> Append(us, [id |-> Len(us) + 1,
                                username |-> payload.username,
                                password |-> hash_password(payload.password, salt)])]

\* POST /auth/login: [code, token]
login(us, username, password, now) ==
    LET found == {i \in DOMAIN us : us[i].username = username}
    IN  IF found = {} THEN [code |-> 401, token |-> NoToken]
        ELSE LET user == us[CHOOSE i \in found : TRUE]
             IN  IF ~verify_password(password, user.password)
                 THEN [code |-> 401, token |-> NoToken]
                 ELSE [code |-> 200,
                       token |-> create_access_token(user.id, None, now)]

-----------------------------------------------------------------------------
(* app/database.py: get_db gives every request a session of its own          *)

Slots == 1..MaxSessions

\* a session no request is using
Idle ==
    [pc |-> "idle", op |-> "none", who |-> "", uid |-> 0, id |-> 0, row |-> None,
     fresh |-> FALSE, code |-> 0, body |-> None]

NoSessions == [s \in Slots |-> Idle]

-----------------------------------------------------------------------------
(* Requests.  The properties range over the request sets *Inputs; the       *)
(* behaviours are driven by the smaller sets Sent*, which are subsets of    *)
(* them chosen to reach every outcome of every handler.                     *)

Usernames == {"alice", "bob"}
\* passwords offered at registration (one too short) and at login (one wrong)
RegisterPasswords == {"StrongPass1", "123"}
LoginPasswords == {"StrongPass1", "WrongPass9"}

\* the instants the clock is observed at: a start, the last minute at which a
\* token issued at the start is accepted, and the minute after it
Later == ACCESS_TOKEN_EXPIRE_MINUTES + 1
Times == {0, ACCESS_TOKEN_EXPIRE_MINUTES, Later}

\* tokens login issues to users 1..3 at the instants above
LoginTokens == {create_access_token(uid, None, t) : uid \in 1..3, t \in Times}

\* credentials no login issues: no header, no JWT, a foreign signature, and
\* correctly signed claims with no subject or a subject that is no user id
FarFuture == 2 * ACCESS_TOKEN_EXPIRE_MINUTES + 1
BadTokens ==
    {NoToken, Garbage,
     Jwt(Some("1"), FarFuture, "another-key"),
     Jwt(None, FarFuture, SECRET_KEY),
     Jwt(Some("abc"), FarFuture, SECRET_KEY),
     Jwt(Some("0"), FarFuture, SECRET_KEY)}

TokenInputs == LoginTokens \cup BadTokens \cup {Jwt(Some("01"), FarFuture, SECRET_KEY)}

\* no credential, or a token login has issued by now to user 1, 2 or 3
SentTokens ==
    {NoToken} \cup
    {create_access_token(uid, None, t) : uid \in 1..3, t \in {x \in Times : x <= clock}}

TitleA == <<"a">>
TitleB == <<"B", "a">>
DescA == <<"m", "i", "l", "k">>
LongTitle == [i \in 1..(MaxTitleLen + 1) |-> "a"]

\* bodies of POST /tasks
CreatePayloads ==
    << [title |-> Some(TitleA)],
       [title |-> Some(TitleA), description |-> Some(DescA),
        status |-> Some("In Progress")],
       [title |-> Some(TitleA), status |-> Some("Done")],
       [title |-> Some(TitleB), description |-> None, status |-> Some("Completed")],
       [title |-> Some(<< >>)],
       [title |-> Some(LongTitle)],
       [title |-> None],
       [description |-> Some(DescA)],
       [title |-> Some(TitleB), description |-> Some(DescA), user_id |-> Some(1)],
       [title |-> Some(TitleB), status |-> Some("New"), id |-> Some(1)],
       [title |-> Some(TitleA), description |-> Some(DescA),
        status |-> Some("completed")] >>

SentCreates == 1..3

\* bodies of PATCH /tasks/{id}
UpdatePayloads ==
    << [f \in {} |-> None],
       [description |-> None, status |-> Some("Completed")],
       [status |-> Some("Done")],
       [title |-> None],
       [title |-> Some(TitleB)],
       [description |-> Some(DescA)],
       [description |-> None],
       [status |-> Some("New")],
       [status |-> Some("In Progress")],
       [title |-> Some(TitleB), status |-> Some("Completed")],
       [title |-> Some(<< >>)],
       [title |-> Some(LongTitle)],
       [title |-> Some(TitleB), status |-> Some("Done")],
       [status |-> None],
       [title |-> Some(TitleB), user_id |-> Some(2)],
       [description |-> Some(DescA), status |-> Some("completed")] >>

SentUpdates == 1..4

\* ids named in requests: every id assigned so far and the next one
TaskIdInputs == 1..nextId

ListParams(status, q, sort_by, sort_dir, page, limit) ==
    [status |-> status, q |-> q, sort_by |-> sort_by, sort_dir |-> sort_dir,
     page |-> page, limit |-> limit]

\* the defaults of list_tasks: sort_by id, sort_dir desc, page 1, limit 10
DefaultLimit == 10
DefaultParams == ListParams(None, None, "id", "desc", 1, DefaultLimit)

\* query strings of GET /tasks and GET /tasks/mine sent between other requests
SentLists ==
    { DefaultParams,
      ListParams(Some("Completed"), Some(DescA), "title", "asc", 2, 1),
      ListParams(None, None, "created_at", "asc", 1, DefaultLimit) }

-----------------------------------------------------------------------------
(* The service: one action per endpoint, each the whole handler.  A handler *)
(* that only reads answers without changing the state.                      *)

Minted(token, subject, expires_minutes, at) ==
    [token |-> token, subject |-> subject, expires_minutes |-> expires_minutes,
     at |-> at]

NothingMinted == Minted(NoToken, 0, None, 0)

Init ==
    /\ users = << >>
    /\ tasks = {}
    /\ nextId = 1
    /\ clock = 0
    /\ minted = NothingMinted
    /\ sessions = NoSessions

Tick ==
    /\ \E t \in Times : t > clock /\ clock' = t
    /\ UNCHANGED <<users, tasks, nextId, minted, sessions>>

Register ==
    \E u \in Usernames, pw \in RegisterPasswords, salt \in Salts :
        LET r == register(users, [username |-> u, password |-> pw], salt)
        IN  /\ r.code \in {200, 400, 422}
            /\ users' = r.users
            /\ UNCHANGED <<tasks, nextId, clock, minted, sessions>>

Login ==
    \E u \in Usernames, pw \in LoginPasswords :
        LET r == login(users, u, pw, clock)
        IN  /\ r.code \in {200, 401}
            /\ UNCHANGED vars

Me ==
    \E token \in SentTokens :
        LET r == me(tasks, token)
        IN  /\ r.code \in {200, 401}
            /\ UNCHANGED vars

ListTasks ==
    \E token \in SentTokens, p \in SentLists :
        LET r == list_tasks(tasks, token, p)
        IN  /\ r.code \in {200, 401, 422}
            /\ UNCHANGED vars

ListMyTasks ==
    \E token \in SentTokens, p \in SentLists :
        LET r == list_my_tasks(tasks, token, p)
        IN  /\ r.code \in {200, 401, 422}
            /\ UNCHANGED vars

GetTask ==
    \E token \in SentTokens, id \in TaskIdInputs :
        LET r == get_task(tasks, token, id)
        IN  /\ r.code \in {200, 401, 404}
            /\ UNCHANGED vars

CreateTask ==
    /\ nextId <= MaxTasks
    /\ \E token \in SentTokens, i \in SentCreates :
        LET r == create_task(tasks, nextId, token, CreatePayloads[i])
        IN  /\ tasks' = r.tasks
            /\ nextId' = IF r.code = 201 THEN nextId + 1 ELSE nextId
            /\ UNCHANGED <<users, clock, minted, sessions>>

CompleteTask ==
    \E token \in SentTokens, id \in TaskIdInputs :
        LET r == complete_task(tasks, token, id)
        IN  /\ tasks' = r.tasks
            /\ UNCHANGED <<users, nextId, clock, minted, sessions>>

UpdateTask ==
    \E token \in SentTokens, id \in TaskIdInputs, i \in SentUpdates :
        LET r == update_task(tasks, token, id, UpdatePayloads[i])
        IN  /\ tasks' = r.tasks
            /\ UNCHANGED <<users, nextId, clock, minted, sessions>>

DeleteTask ==
    \E token \in SentTokens, id \in TaskIdInputs :
        LET r == delete_task(tasks, token, id)
        IN  /\ tasks' = r.tasks
            /\ UNCHANGED <<users, nextId, clock, minted, sessions>>

Next ==
    \/ Tick
    \/ Register
    \/ Login
    \/ Me
    \/ ListTasks
    \/ ListMyTasks
    \/ GetTask
    \/ CreateTask
    \/ CompleteTask
    \/ UpdateTask
    \/ DeleteTask

Spec == Init /\ [][Next]_vars

-----------------------------------------------------------------------------
(* Properties of the service                                                *)

Caller(token) == get_current_user(token).id
Authenticated(token) == get_current_user(token).ok

\* C1 (as claimed): a non-owner's update, complete or delete of an existing task
\* is answered 403 whatever the payload, and leaves the tasks table as it was.
C1_NonOwnerAlwaysForbidden ==
    \A token \in TokenInputs, t \in tasks :
        (Authenticated(token) /\ Caller(token) # t.user_id) =>
            /\ \A i \in DOMAIN UpdatePayloads :
                   LET r == update_task(tasks, token, t.id, UpdatePayloads[i])
                   IN  r.code = 403 /\ r.tasks = tasks
            /\ LET r == complete_task(tasks, token, t.id)
               IN  r.code = 403 /\ r.tasks = tasks
            /\ LET r == delete_task(tasks, token, t.id)
               IN  r.code = 403 /\ r.tasks = tasks

\* C2: the owner's complete is idempotent: from any status, two calls in a row both
\* answer 200 with status Completed, the second commits nothing, and the table
\* after the second call is the table after the first.
C2_CompleteIdempotent ==
    \A token \in TokenInputs, t \in tasks :
        (Authenticated(token) /\ Caller(token) = t.user_id) =>
            LET r1 == complete_task(tasks, token, t.id)
                r2 == complete_task(r1.tasks, token, t.id)
            IN  /\ r1.code = 200 /\ r1.body.status = "Completed"
                /\ r2.code = 200 /\ r2.body.status = "Completed"
                /\ r2.commits = 0
                /\ r2.tasks = r1.tasks
                /\ r2.body = r1.body
                /\ r1.body = [t EXCEPT !.status = "Completed"]
                /\ r1.tasks = (tasks \ {t}) \cup {r1.body}

\* a task that only complete can have produced (create with a description gives
\* In Progress, the update that sets Completed clears the description), whose owner
\* completes it again without a commit
C2_Witness ==
    \E t \in tasks :
        /\ t.status = "Completed" /\ t.description # None
        /\ \E token \in SentTokens :
               LET r == complete_task(tasks, token, t.id)
               IN  r.code = 200 /\ r.commits = 0


\* every protected operation, on every request in the input sets, answers as Ok
EveryProtected(token, Ok(_)) ==
    /\ Ok(me(tasks, token))
    /\ \A p \in SentLists :
           Ok(list_tasks(tasks, token, p)) /\ Ok(list_my_tasks(tasks, token, p))
    /\ \A id \in TaskIdInputs :
           /\ Ok(get_task(tasks, token, id))
           /\ Ok(complete_task(tasks, token, id))
           /\ Ok(delete_task(tasks, token, id))
           /\ \A i \in DOMAIN UpdatePayloads :
                  Ok(update_task(tasks, token, id, UpdatePayloads[i]))
    /\ \A i \in DOMAIN CreatePayloads :
           Ok(create_task(tasks, nextId, token, CreatePayloads[i]))

\* the credential is missing, malformed, wrongly signed, expired, or its subject
\* is absent, is no integer, or is the id of no stored user
TokenRejected(token) ==
    \/ token.kind = "none"
    \/ token.kind = "garbage"
    \/ /\ token.kind = "jwt"
       /\ \/ token.key # SECRET_KEY
          \/ token.exp < clock
          \/ token.sub = None
          \/ ~IntParse(token.sub[1]).ok
          \/ IntParse(token.sub[1]).v \notin UserIds

Refused401(r) == r.code = 401 /\ r.tasks = tasks
Proceeds(r) == r.code # 401

\* C3: with such a credential every protected operation answers 401 and changes
\* nothing; otherwise it proceeds, as the user whose id is the token's subject.
C3_AuthenticationGate ==
    \A token \in TokenInputs :
        IF TokenRejected(token)
        THEN EveryProtected(token, Refused401)
        ELSE /\ Authenticated(token)
             /\ Caller(token) = IntParse(token.sub[1]).v
             /\ EveryProtected(token, Proceeds)
             /\ me(tasks, token).body.id = IntParse(token.sub[1]).v

\* user 1 holds a task and a token issued at 0, now expired; user 3 does not exist
C3_Witness ==
    LET old == create_access_token(1, None, 0)
        stale == create_access_token(3, None, clock)
    IN  /\ clock > ACCESS_TOKEN_EXPIRE_MINUTES
        /\ 1 \in UserIds /\ 3 \notin UserIds
        /\ \E t \in tasks :
               /\ t.user_id = 1
               /\ delete_task(tasks, old, t.id).code = 401
               /\ delete_task(tasks, stale, t.id).code = 401
               /\ t \in delete_task(tasks, old, t.id).tasks

-----------------------------------------------------------------------------
(* The Token Service on its own: create_access_token with every argument,   *)
(* decode_token as time passes                                               *)

TtlInputs == {None, Some(0), Some(1), Some(2), Some(-1)}
TokenTimes == {0, 1, 2, 3,
               ACCESS_TOKEN_EXPIRE_MINUTES - 1, ACCESS_TOKEN_EXPIRE_MINUTES,
               ACCESS_TOKEN_EXPIRE_MINUTES + 1, ACCESS_TOKEN_EXPIRE_MINUTES + 2}

Mint ==
    \E subject \in 1..3, expires_minutes \in TtlInputs :
        /\ minted' = Minted(create_access_token(subject, expires_minutes, clock),
                            subject, expires_minutes, clock)
        /\ UNCHANGED <<users, tasks, nextId, clock, sessions>>

TickToken ==
    /\ \E t \in TokenTimes : t > clock /\ clock' = t
    /\ UNCHANGED <<users, tasks, nextId, minted, sessions>>

Verify ==
    /\ decode_token(minted.token, clock).ok \in BOOLEAN
    /\ UNCHANGED vars

NextToken ==
    \/ Mint
    \/ TickToken
    \/ Verify

SpecToken == Init /\ [][NextToken]_vars

\* the ttl the caller asked for: the argument, or the default when it is omitted
RequestedTtl(expires_minutes) ==
    IF expires_minutes = None THEN ACCESS_TOKEN_EXPIRE_MINUTES ELSE expires_minutes[1]

\* C4 (as claimed): a token issued for uid with a ttl verifies to uid at every time
\* before issue time + ttl, is rejected at every time after it, and never verifies
\* to another user id.
C4_TokenRoundTrip ==
    minted # NothingMinted =>
        LET expiry == minted.at + RequestedTtl(minted.expires_minutes)
            d == decode_token(minted.token, clock)
        IN  /\ clock < expiry =>
                d.ok /\ d.sub # None
                     /\ IntParse(d.sub[1]) = [ok |-> TRUE, v |-> minted.subject]
            /\ clock > expiry => ~d.ok
            /\ d.ok => d.sub # None /\ IntParse(d.sub[1]).v = minted.subject

-----------------------------------------------------------------------------
(* Listing: scope                                                           *)

\* q is a substring of s, ignoring case
Contains(s, q) ==
    \E i \in 0..(Len(s) - Len(q)) :
        SubSeq(LowerStr(s), i + 1, i + Len(q)) = LowerStr(q)

\* the task passes the status filter and the search of the request
Matches(t, p) ==
    /\ p.status # None => t.status = p.status[1]
    /\ (p.q # None /\ p.q[1] # << >>) =>
           \/ Contains(t.title, p.q[1])
           \/ t.description # None /\ Contains(t.description[1], p.q[1])

Items(r) == {r.body.items[i] : i \in DOMAIN r.body.items}

\* requests whose search string holds no LIKE wildcard
ScopeParams ==
    {ListParams(st, q, "id", "desc", 1, limit) :
        st \in {None, Some("Completed"), Some("In Progress")},
        q \in {None, Some(<<"A">>), Some(<<"M", "i">>)},
        limit \in {1, DefaultLimit}}

\* C5: every item of GET /tasks/mine is a task of the caller that matches the
\* filters and total counts all of those; GET /tasks counts and returns the
\* matching tasks of every owner.
C5_ListingScope ==
    \A token \in TokenInputs : Authenticated(token) =>
        \A p \in ScopeParams :
            LET rm == list_my_tasks(tasks, token, p)
                ra == list_tasks(tasks, token, p)
                allSet == {t \in tasks : Matches(t, p)}
                mineSet == {t \in allSet : t.user_id = Caller(token)}
            IN  /\ rm.code = 200 /\ ra.code = 200
                /\ Items(rm) \subseteq mineSet
                /\ rm.body.total = Cardinality(mineSet)
                /\ Items(ra) \subseteq allSet
                /\ ra.body.total = Cardinality(allSet)
                /\ p.limit >= Cardinality(allSet) =>
                       Items(rm) = mineSet /\ Items(ra) = allSet

\* two owners hold tasks, and a caller's own list is shorter than the full list
C5_Witness ==
    \E token \in SentTokens :
        /\ Authenticated(token)
        /\ list_my_tasks(tasks, token, DefaultParams).body.total = 1
        /\ list_tasks(tasks, token, DefaultParams).body.total = 2
        /\ \E t \in Items(list_tasks(tasks, token, DefaultParams)) :
               t.user_id # Caller(token)


-----------------------------------------------------------------------------
(* The listing engine over a populated table: two registered users, and any *)
(* table of up to MaxRows tasks they can have created                        *)

TwoUsers ==
    register(register(<< >>, [username |-> "alice", password |-> "StrongPass1"], "s1").users,
             [username |-> "bob", password |-> "StrongPass1"], "s1").users

\* title, description, status, owner of the tasks created
RowPool ==
    { <<<<"M", "i", "l", "k">>, None, "New", 1>>,
      <<<<"a", "b">>, Some(<<"m", "i", "l", "k">>), "Completed", 2>>,
      <<<<"a", "_", "b">>, None, "In Progress", 1>>,
      <<<<"B", "a">>, Some(<<"a", "%">>), "New", 2>>,
      <<<<"M", "i", "l", "k">>, Some(<<"a", "b">>), "Completed", 1>> }

InitQuery ==
    /\ users = TwoUsers
    /\ clock = 0
    /\ minted = NothingMinted
    /\ sessions = NoSessions
    /\ \E n \in 0..MaxRows :
        \E f \in [1..n -> RowPool] :
            /\ tasks = {Task(i, f[i][1], f[i][2], f[i][3], f[i][4]) : i \in 1..n}
            /\ nextId = n + 1

NextQuery ==
    \/ ListTasks
    \/ ListMyTasks

SpecQuery == InitQuery /\ [][NextQuery]_vars

\* GET /tasks or GET /tasks/mine
List(scope, token, p) ==
    IF scope = "mine" THEN list_my_tasks(tasks, token, p)
    ELSE list_tasks(tasks, token, p)

Scopes == {"all", "mine"}

\* the rows in scope that pass the WHERE clauses, before ORDER BY / OFFSET / LIMIT
Filtered(scope, token, p) ==
    WhereSearch(WhereStatus(IF scope = "mine"
                            THEN {t \in tasks : t.user_id = Caller(token)}
                            ELSE tasks, p.status), p.q)

\* the items of pages 1..k of the request, one after the other
RECURSIVE PagesUpTo(_, _, _, _)
PagesUpTo(scope, token, p, k) ==
    IF k = 0 THEN << >>
    ELSE PagesUpTo(scope, token, p, k - 1)
         \o List(scope, token, [p EXCEPT !.page = k]).body.items

\* n = ceil(total / limit)
IsCeil(n, total, limit) == n * limit >= total /\ (n - 1) * limit < total /\ n >= 0

PageParams ==
    {ListParams(st, q, sort[1], sort[2], 1, limit) :
        st \in {None, Some("New")},
        q \in {None, Some(<<"m", "I">>)},
        sort \in {<<"id", "desc">>, <<"title", "asc">>},
        limit \in {1, 2, 3, MaxLimit}}

\* C6: for fixed filters and limit, pages 1..total_pages one after the other hold
\* every row of the filtered set exactly once, total is the size of that set, and
\* every page after total_pages is empty.
C6_PagesPartition ==
    \A token \in SentTokens : Authenticated(token) =>
        \A scope \in Scopes, p \in PageParams :
            LET rows == Filtered(scope, token, p)
                total == List(scope, token, p).body.total
                total_pages == TotalPages(total, p.limit)
                all == PagesUpTo(scope, token, p, total_pages)
            IN  /\ total = Cardinality(rows)
                /\ IsCeil(total_pages, total, p.limit)
                /\ Len(all) = total
                /\ {all[i] : i \in DOMAIN all} = rows
                /\ Cardinality({all[i].id : i \in DOMAIN all}) = total
                /\ \A k \in 1..(total_pages + 2) :
                       LET r == List(scope, token, [p EXCEPT !.page = k])
                       IN  /\ r.code = 200 /\ r.body.total = total
                           /\ k > total_pages => r.body.items = << >>
                           /\ k <= total_pages => Len(r.body.items) >= 1

\* three rows listed two to a page: the second page holds the third row
C6_Witness ==
    \E token \in SentTokens :
        LET p == ListParams(None, None, "id", "desc", 2, 2)
            r == list_tasks(tasks, token, p)
        IN  /\ r.code = 200
            /\ r.body.total = 3
            /\ Len(r.body.items) = 1
            /\ r.body.items[1].id = 1

\* C7 (as claimed): the body of a list answer carries items, total, page, limit and
\* total_pages, with total_pages = ceil(total / limit).
C7_ResultCarriesTotalPages ==
    \A token \in TokenInputs : Authenticated(token) =>
        \A scope \in Scopes, p \in ScopeParams :
            LET r == List(scope, token, p)
            IN  /\ r.code = 200
                /\ {"items", "total", "page", "limit", "total_pages"}
                       \subseteq DOMAIN r.body
                /\ IsCeil(r.body.total_pages, r.body.total, p.limit)

SearchParams ==
    {ListParams(st, Some(q), "id", "desc", 1, MaxLimit) :
        st \in {None, Some("New")},
        q \in {<<"a">>, <<"M", "i">>, <<"_">>, <<"%">>}}

\* C8 (as claimed): for a non-empty q, wildcard characters included, every item
\* returned has q as a case-insensitive substring of its title or description, and
\* every task in scope that has, and passes the status filter, is counted.
C8_SearchIsSubstring ==
    \A token \in TokenInputs : Authenticated(token) =>
        \A scope \in Scopes, p \in SearchParams :
            LET r == List(scope, token, p)
                inScope == IF scope = "mine"
                           THEN {t \in tasks : t.user_id = Caller(token)} ELSE tasks
                hits == {t \in inScope : Matches(t, p)}
            IN  /\ r.code = 200
                /\ Items(r) \subseteq hits
                /\ r.body.total = Cardinality(hits)

\* a sorts before b by the field in the direction, equal values by id descending
InOrder(a, b, field, dir) ==
    LET lt == ColLess(field, a, b)
        gt == ColLess(field, b, a)
    IN  \/ dir = "asc" /\ lt
        \/ dir = "desc" /\ gt
        \/ ~lt /\ ~gt /\ a.id > b.id

SortParams ==
    {ListParams(None, q, sort_by, sort_dir, 1, limit) :
        q \in {None, Some(<<"a">>)},
        sort_by \in SortFields,
        sort_dir \in SortDirs,
        limit \in {1, 2, MaxLimit}}

\* C9: the items of a page are in the order of the sort field and direction, ties
\* by id descending, and each page continues the order of the page before it.
C9_SortOrder ==
    \A token \in SentTokens : Authenticated(token) =>
        \A scope \in Scopes, p \in SortParams :
            LET total == List(scope, token, p).body.total
                all == PagesUpTo(scope, token, p, TotalPages(total, p.limit))
            IN  /\ Len(all) = total
                /\ \A i \in 1..(Len(all) - 1) :
                       InOrder(all[i], all[i + 1], p.sort_by, p.sort_dir)

\* sorted by title ascending, two rows with one title come highest id first, ahead
\* of a row with a later title
C9_Witness ==
    \E token \in SentTokens :
        LET r == list_tasks(tasks, token, ListParams(None, None, "title", "asc", 1, MaxLimit))
        IN  /\ r.code = 200
            /\ Len(r.body.items) = 3
            /\ r.body.items[1].title = r.body.items[2].title
            /\ r.body.items[1].id > r.body.items[2].id
            /\ r.body.items[2].id < r.body.items[3].id
            /\ TextLess(r.body.items[2].title, r.body.items[3].title)

UnknownSortFields == {"created_at", "description", "Title", ""}

UnknownSortParams ==
    {ListParams(st, None, sort_by, sort_dir, 1, DefaultLimit) :
        st \in {None, Some("New")},
        sort_by \in UnknownSortFields,
        sort_dir \in SortDirs}

\* C10 (as claimed): a request whose sort field is none of id, title, status,
\* user_id succeeds, with the items it would have with sort field id.
C10_UnknownSortFallsBackToId ==
    \A token \in TokenInputs : Authenticated(token) =>
        \A scope \in Scopes, p \in UnknownSortParams :
            LET r == List(scope, token, p)
                byId == List(scope, token, [p EXCEPT !.sort_by = "id"])
            IN  r.code = 200 /\ r.body = byId.body

\* C10 (amended): such a request is refused as a client input error (422): no
\* items are returned and nothing changes.
C10_UnknownSortRejected ==
    \A token \in TokenInputs : Authenticated(token) =>
        \A scope \in Scopes, p \in UnknownSortParams :
            LET r == List(scope, token, p)
            IN  /\ r.code = 422
                /\ "items" \notin DOMAIN r.body
                /\ r.tasks = tasks

\* tasks are stored and a logged-in user lists them by created_at
C10_Witness ==
    \E token \in SentTokens :
        /\ list_tasks(tasks, token, DefaultParams).code = 200
        /\ list_tasks(tasks, token, DefaultParams).body.total >= 2
        /\ list_tasks(tasks, token,
                      ListParams(None, None, "created_at", "asc", 1, DefaultLimit)).code = 422

-----------------------------------------------------------------------------
(* Status filter                                                            *)

\* status values no task can have: another word, another case, the empty string
UnknownStatuses == {"Done", "new", "COMPLETED", ""}

StatusParams(st) ==
    {ListParams(Some(st), q, "id", "desc", 1, limit) :
        q \in {None, Some(<<"a">>)},
        limit \in {1, MaxLimit}}

\* C11: with a status filter of the enumeration every returned item has that
\* status and total counts exactly the in-scope tasks with it (that pass the
\* search); with any other status value the request is refused as a client input
\* error and no listing, filtered or not, is returned.
C11_StatusFilter ==
    \A token \in SentTokens : Authenticated(token) =>
        \A scope \in Scopes :
            /\ \A st \in StatusLiteral : \A p \in StatusParams(st) :
                   LET r == List(scope, token, p)
                       inScope == IF scope = "mine"
                                  THEN {t \in tasks : t.user_id = Caller(token)}
                                  ELSE tasks
                       hits == {t \in inScope : t.status = st /\ Matches(t, p)}
                   IN  /\ r.code = 200
                       /\ \A i \in DOMAIN r.body.items : r.body.items[i].status = st
                       /\ Items(r) \subseteq hits
                       /\ r.body.total = Cardinality(hits)
                       /\ p.limit >= Cardinality(hits) => Items(r) = hits
            /\ \A st \in UnknownStatuses : \A p \in StatusParams(st) :
                   LET r == List(scope, token, p)
                   IN  /\ r.code = 422
                       /\ "items" \notin DOMAIN r.body
                       /\ r.tasks = tasks

\* the table holds tasks of several statuses and the filter selects some, not all
C11_Witness ==
    \E token \in SentTokens :
        LET r == list_tasks(tasks, token,
                            ListParams(Some("Completed"), None, "id", "desc", 1, MaxLimit))
            bad == list_tasks(tasks, token,
                              ListParams(Some("Done"), None, "id", "desc", 1, MaxLimit))
        IN  /\ r.code = 200
            /\ r.body.total = 2
            /\ Cardinality(tasks) = 3
            /\ bad.code = 422

-----------------------------------------------------------------------------
(* Credentials: registrations and logins with passwords of every length     *)

Seventy == "aaaaaaaaaaaaaaaaaaaaaaaaaaaaaaaaaaaaaaaaaaaaaaaaaaaaaaaaaaaaaaaaaaaaaa"
\* two passwords of 73 characters that differ in the last one only
LongPassA == Seventy \o "bcX"
LongPassB == Seventy \o "bcY"

AuthUsernames == {"alice", "bob", "farida"}
\* too short (3 and 5 characters), just long enough (6), ordinary, and long
AuthPasswords ==
    {"123", "12345", "123456", "StrongPass1", "WrongPass9", LongPassA, LongPassB}

RegisterAuth ==
    \E u \in AuthUsernames, pw \in AuthPasswords, salt \in Salts :
        LET r == register(users, [username |-> u, password |-> pw], salt)
        IN  /\ r.code \in {200, 400, 422}
            /\ users' = r.users
            /\ UNCHANGED <<tasks, nextId, clock, minted, sessions>>

LoginAuth ==
    \E u \in AuthUsernames, pw \in AuthPasswords :
        LET r == login(users, u, pw, clock)
        IN  /\ r.code \in {200, 401}
            /\ UNCHANGED vars

NextAuth ==
    \/ RegisterAuth
    \/ LoginAuth

SpecAuth == Init /\ [][NextAuth]_vars

\* the stored user with the username, if any
Stored(us, username) == {us[i] : i \in {j \in DOMAIN us : us[j].username = username}}

\* C12 (as claimed): login answers 200 with a token for the user's id exactly when
\* the username is stored and the password verifies against its digest, and 401
\* with no token otherwise; and the stored credential of a registered user is not
\* the password that verifies against it, and no other password verifies.
C12_LoginAndDigest ==
    /\ \A u \in AuthUsernames, pw \in AuthPasswords :
           LET r == login(users, u, pw, clock)
               ok == \E usr \in Stored(users, u) : verify_password(pw, usr.password)
           IN  /\ r.code = 200 <=> ok
               /\ r.code = 200 =>
                      /\ Authenticated(r.token)
                      /\ \E usr \in Stored(users, u) : Caller(r.token) = usr.id
               /\ r.code # 200 => r.code = 401 /\ r.token = NoToken
    /\ \A i \in DOMAIN users : \A pw \in AuthPasswords :
           verify_password(pw, users[i].password) =>
               /\ users[i].password # pw
               /\ \A wrong \in AuthPasswords \ {pw} :
                      ~verify_password(wrong, users[i].password)

\* C13: a registration whose password has fewer than 6 characters is refused as a
\* client input error (400 or 422), stores nothing (the users are as before, no
\* digest is added), and the username, unless it was registered before, cannot
\* log in with any password.
C13_ShortPasswordRejected ==
    \A u \in AuthUsernames, pw \in AuthPasswords, salt \in Salts :
        Len(pw) < MinPasswordLen =>
            LET r == register(users, [username |-> u, password |-> pw], salt)
            IN  /\ r.code \in {400, 422}
                /\ r.users = users
                /\ Stored(users, u) = {} =>
                       \A any \in AuthPasswords :
                           /\ login(r.users, u, any, clock).code = 401
                           /\ login(r.users, u, any, clock).token = NoToken

\* with one user stored, a five-character password is refused for a fresh
\* username while a six-character one would be taken
C13_Witness ==
    /\ Len(users) = 1
    /\ \E u \in AuthUsernames :
           /\ Stored(users, u) = {}
           /\ register(users, [username |-> u, password |-> "12345"], "s1").code = 422
           /\ register(users, [username |-> u, password |-> "12345"], "s1").users = users
           /\ register(users, [username |-> u, password |-> "123456"], "s1").code = 200
           /\ login(users, u, "12345", clock).code = 401

-----------------------------------------------------------------------------
(* Concurrent registrations.  A request runs in its own session; db.commit() *)
(* first flushes the INSERT, which the unique index on users.username checks *)
(* against the committed rows and makes wait for an uncommitted row with the *)
(* same username, and then commits.                                          *)

\* no constraint on users.username
UniqueViolation_unenforced(us, username) == FALSE

\* the unique index on users.username refuses the row
UniqueViolation(us, username) == \E i \in DOMAIN us : us[i].username = username

RacePasswords == {"StrongPass1", "WrongPass9", "123"}

\* the INSERT of session s waits for another session's uncommitted row
InsertWaits(s) ==
    \E t \in Slots \ {s} :
        /\ sessions[t].op = "register"
        /\ sessions[t].pc = "inserted"
        /\ sessions[t].who = sessions[s].who

\* body validation, hash_password, models.User(...), db.add(user)
RegisterBegin(s) ==
    /\ sessions[s].pc = "idle"
    /\ \E u \in Usernames, pw \in RacePasswords, salt \in Salts :
        sessions' = [sessions EXCEPT ![s] =
            IF Len(pw) < MinPasswordLen
            THEN [Idle EXCEPT !.pc = "done", !.op = "register", !.who = u,
                              !.code = 422]
            ELSE [Idle EXCEPT !.pc = "added", !.op = "register", !.who = u,
                              !.fresh = ~UniqueViolation(users, u),
                              !.row = Some([username |-> u,
                                            password |-> hash_password(pw, salt)])]]
    /\ UNCHANGED <<users, tasks, nextId, clock, minted>>

\* db.commit(), first half: the INSERT
RegisterFlush(s) ==
    /\ sessions[s].op = "register"
    /\ sessions[s].pc = "added"
    /\ IF UniqueViolation(users, sessions[s].who)
       THEN sessions' = [sessions EXCEPT ![s].pc = "failed"]
       ELSE /\ ~InsertWaits(s)
            /\ sessions' = [sessions EXCEPT ![s].pc = "inserted"]
    /\ UNCHANGED <<users, tasks, nextId, clock, minted>>

\* db.commit(), second half, db.refresh(user), return user
RegisterCommit(s) ==
    /\ sessions[s].op = "register"
    /\ sessions[s].pc = "inserted"
    /\ users' = Append(users, [id |-> Len(users) + 1,
                               username |-> sessions[s].row[1].username,
                               password |-> sessions[s].row[1].password])
    /\ sessions' = [sessions EXCEPT ![s].pc = "done", ![s].code = 200]
    /\ UNCHANGED <<tasks, nextId, clock, minted>>

\* except IntegrityError: db.rollback(), 400
RegisterRollback(s) ==
    /\ sessions[s].op = "register"
    /\ sessions[s].pc = "failed"
    /\ sessions' = [sessions EXCEPT ![s].pc = "done", ![s].code = 400,
                                    ![s].row = None]
    /\ UNCHANGED <<users, tasks, nextId, clock, minted>>

\* the answer is sent and the session closed
RegisterReturn(s) ==
    /\ sessions[s].op = "register"
    /\ sessions[s].pc = "done"
    /\ sessions' = [sessions EXCEPT ![s] = Idle]
    /\ UNCHANGED <<users, tasks, nextId, clock, minted>>

NextRace ==
    \E s \in Slots :
        \/ RegisterBegin(s)
        \/ RegisterFlush(s)
        \/ RegisterCommit(s)
        \/ RegisterRollback(s)
        \/ RegisterReturn(s)

SpecRace == Init /\ [][NextRace]_vars

\* the registrations of username u that began while u was not stored and have
\* been answered
Competing(u) ==
    {s \in Slots : /\ sessions[s].op = "register" /\ sessions[s].pc = "done"
                   /\ sessions[s].who = u /\ sessions[s].fresh}

UsernamesUnique ==
    /\ \A i, j \in DOMAIN users : users[i].username = users[j].username => i = j
    /\ \A u \in Usernames :
        /\ Cardinality({s \in Competing(u) : sessions[s].code = 200}) <= 1
        /\ \A s \in Competing(u) :
            /\ sessions[s].code \in {200, 400}
            /\ Cardinality(Stored(users, u)) = 1
            /\ sessions[s].code = 200 =>
                   \E usr \in Stored(users, u) :
                       usr.password = sessions[s].row[1].password
            /\ sessions[s].code = 400 => sessions[s].row = None

FailureLeavesUsersAlone ==
    /\ \A i \in DOMAIN users : i \in DOMAIN users' /\ users'[i] = users[i]
    /\ \A s \in Slots :
           sessions'[s].code = 400 /\ sessions[s].code # 400 => users' = users

\* C14: under every interleaving of the steps of concurrent registrations no two
\* stored users share a username; of the registrations competing for a username
\* one is answered 200 and its row is the one stored, every other is answered 400
\* with nothing of it left; and a failing registration changes no stored user.
C14_UniqueUsernames == []UsernamesUnique /\ [][FailureLeavesUsersAlone]_vars

\* two registrations of one username ran concurrently: one was answered 200, the
\* other 400, beside a user stored earlier
C14_Witness ==
    /\ Len(users) = 2
    /\ \E s, t \in Slots :
        /\ sessions[s].op = "register" /\ sessions[t].op = "register"
        /\ sessions[s].who = sessions[t].who
        /\ sessions[s].fresh /\ sessions[t].fresh
        /\ sessions[s].code = 200
        /\ sessions[t].code = 400
        /\ users[2].username = sessions[s].who

-----------------------------------------------------------------------------
(* Single-task operations                                                   *)

\* the patches that pass the validation of TaskUpdate
ValidPatches == {i \in DOMAIN UpdatePayloads : TaskUpdateValid(UpdatePayloads[i])}

\* the stored field f holds what the patch gives for it, null included
Applied(task, f, v) ==
    IF f = "description" \/ v = None THEN task[f] = v ELSE task[f] = v[1]

\* C15 (as claimed): an owner's update with a valid patch answers 200; each of
\* title, description, status present in the patch then holds the patch's value,
\* an explicit null included, each absent one keeps its value, id and owner are
\* kept, the other tasks are untouched, and an empty patch changes nothing.
C15_PartialUpdate ==
    \A token \in TokenInputs : Authenticated(token) =>
        \A old \in tasks : old.user_id = Caller(token) =>
            \A i \in ValidPatches :
                LET patch == model_dump(UpdatePayloads[i])
                    r == update_task(tasks, token, old.id, UpdatePayloads[i])
                IN  /\ r.code = 200
                    /\ r.tasks \ {r.body} = tasks \ {old}
                    /\ r.body \in r.tasks
                    /\ r.body.id = old.id /\ r.body.user_id = old.user_id
                    /\ \A f \in TaskUpdateFields :
                           IF f \in DOMAIN patch
                           THEN Applied(r.body, f, patch[f])
                           ELSE r.body[f] = old[f]
                    /\ DOMAIN patch = {} => r.tasks = tasks

ValidCreates == {i \in DOMAIN CreatePayloads : TaskCreateValid(CreatePayloads[i])}

\* C16: a create by an authenticated caller with a valid body answers 201 with a
\* task that is then stored beside the unchanged earlier tasks: its id is that of
\* no earlier task, its owner is the caller whatever the body names, its title
\* and description are the body's and its status the body's, or New.
C16_CreateAddsCallersTask ==
    \A token \in TokenInputs : Authenticated(token) =>
        \A i \in ValidCreates :
            LET body == CreatePayloads[i]
                r == create_task(tasks, nextId, token, body)
            IN  /\ r.code = 201
                /\ r.tasks = tasks \cup {r.body}
                /\ r.body \notin tasks
                /\ \A t \in tasks : t.id # r.body.id
                /\ Cardinality(r.tasks) = Cardinality(tasks) + 1
                /\ r.body.user_id = Caller(token)
                /\ r.body.title = body.title[1]
                /\ r.body.description =
                       IF "description" \in DOMAIN body THEN body.description ELSE None
                /\ r.body.status =
                       IF "status" \in DOMAIN body THEN body.status[1] ELSE "New"

\* user 2 creates a task with a body that names user 1, beside a stored task
C16_Witness ==
    \E token \in SentTokens :
        LET r == create_task(tasks, nextId, token, CreatePayloads[9])
        IN  /\ tasks # {}
            /\ Authenticated(token) /\ Caller(token) = 2
            /\ r.code = 201
            /\ r.body.user_id = 2
            /\ r.body.id = nextId

\* the status of the body is a string outside the enumeration
StatusUnknown(body) ==
    "status" \in DOMAIN body /\ body.status # None /\ ~IsTaskStatus(body.status[1])

UnknownStatusCreates == {i \in DOMAIN CreatePayloads : StatusUnknown(CreatePayloads[i])}
UnknownStatusPatches == {i \in DOMAIN UpdatePayloads : StatusUnknown(UpdatePayloads[i])}

Absent(ts, id) == \A t \in ts : t.id # id

\* with table ts, every single-task operation on the id answers 404 and changes
\* nothing, and no listing shows the id
GoneFrom(ts, id) ==
    \A token \in SentTokens : Authenticated(token) =>
        /\ get_task(ts, token, id).code = 404
        /\ complete_task(ts, token, id).code = 404
        /\ complete_task(ts, token, id).tasks = ts
        /\ delete_task(ts, token, id).code = 404
        /\ delete_task(ts, token, id).tasks = ts
        /\ \A i \in ValidPatches :
               /\ update_task(ts, token, id, UpdatePayloads[i]).code = 404
               /\ update_task(ts, token, id, UpdatePayloads[i]).tasks = ts
        /\ \A p \in {DefaultParams, ListParams(None, None, "title", "asc", 1, MaxLimit)} :
               /\ \A t \in Items(list_tasks(ts, token, p)) : t.id # id
               /\ \A t \in Items(list_my_tasks(ts, token, p)) : t.id # id

DeleteRemoves ==
    /\ \A token \in SentTokens : Authenticated(token) =>
           \A t \in tasks : t.user_id = Caller(token) =>
               LET r == delete_task(tasks, token, t.id)
               IN  /\ r.code = 204
                   /\ r.tasks = tasks \ {t}
                   /\ GoneFrom(r.tasks, t.id)
    /\ \A id \in 1..nextId : Absent(tasks, id) => GoneFrom(tasks, id)

RemovedForGood ==
    /\ nextId' >= nextId
    /\ \A id \in 1..(nextId - 1) : Absent(tasks, id) => Absent(tasks', id)
    /\ LET removed == {t \in tasks : Absent(tasks', t.id)}
       IN  removed # {} =>
               /\ Cardinality(removed) = 1
               /\ tasks' = tasks \ removed
               /\ users' = users

\* C18: the owner's delete answers 204 and removes the task; from then on, in
\* every later state, get, complete, update and delete on its id answer 404 and
\* no listing shows it; delete on an id with no task answers 404; a delete
\* changes no other task and no user.
C18_DeleteIsPermanent == []DeleteRemoves /\ [][RemovedForGood]_vars

\* a task was deleted, a later one is stored, and the deleted id answers 404
C18_Witness ==
    /\ nextId = 3
    /\ Absent(tasks, 1) /\ ~Absent(tasks, 2)
    /\ \E token \in SentTokens :
           /\ Authenticated(token)
           /\ get_task(tasks, token, 1).code = 404
           /\ delete_task(tasks, token, 1).code = 404
           /\ delete_task(tasks, token, 2).code = 204

\* C19: get by an authenticated caller, owner or not, answers 200 with the stored
\* task of that id when there is one and 404 exactly when there is none, and
\* writes nothing.
C19_GetAnyTask ==
    \A token \in TokenInputs : Authenticated(token) =>
        \A id \in 0..nextId :
            LET r == get_task(tasks, token, id)
            IN  /\ r.tasks = tasks /\ r.commits = 0
                /\ r.code \in {200, 404}
                /\ r.code = 404 <=> Absent(tasks, id)
                /\ \A t \in tasks : t.id = id => r.code = 200 /\ r.body = t

\* a caller gets a task of another user, and 404 for an id not stored
C19_Witness ==
    \E token \in SentTokens : \E t \in tasks :
        /\ Authenticated(token) /\ t.user_id # Caller(token)
        /\ get_task(tasks, token, t.id).code = 200
        /\ get_task(tasks, token, t.id).body = t
        /\ get_task(tasks, token, nextId).code = 404

-----------------------------------------------------------------------------
(* Concurrent completions.  Each request reads the task into its session,   *)
(* checks it, and, when the status it read is not Completed, sets it and    *)
(* calls db.commit(): the UPDATE of the status column, which waits for an   *)
(* uncommitted UPDATE of the same row, then the commit; db.refresh reads    *)
(* the row again for the answer.                                            *)

\* a Task mapped with a version counter: an UPDATE of a row that changed since
\* it was read fails
StaleWriteFails_versioned(s) ==
    \E t \in tasks : t.id = sessions[s].id /\ t.status = COMPLETED

\* Task has no version counter: an UPDATE fails only when its row is gone
StaleWriteFails(s) == Absent(tasks, sessions[s].id)

\* another session holds an uncommitted UPDATE of the row
RowLocked(s) ==
    \E t \in Slots \ {s} :
        /\ sessions[t].op = "complete"
        /\ sessions[t].pc = "flushed"
        /\ sessions[t].id = sessions[s].id

Answered(s, code, body) ==
    [sessions[s] EXCEPT !.pc = "done", !.code = code, !.body = body]

\* get_current_user, db.get(models.Task, task_id), 404
CompleteBegin(s) ==
    /\ sessions[s].pc = "idle"
    /\ \E token \in SentTokens, id \in TaskIdInputs :
        LET auth == get_current_user(token)
            task == db_get(tasks, id)
            begun == [Idle EXCEPT !.op = "complete", !.uid = auth.id, !.id = id]
        IN  sessions' = [sessions EXCEPT ![s] =
                IF ~auth.ok THEN [begun EXCEPT !.pc = "done", !.code = 401]
                ELSE IF task = None THEN [begun EXCEPT !.pc = "done", !.code = 404]
                ELSE [begun EXCEPT !.pc = "read", !.row = task]]
    /\ UNCHANGED <<users, tasks, nextId, clock, minted>>

\* the owner check, the status check and task.status = COMPLETED
CompleteCheck(s) ==
    /\ sessions[s].op = "complete"
    /\ sessions[s].pc = "read"
    /\ LET row == sessions[s].row[1]
       IN  sessions' = [sessions EXCEPT ![s] =
               IF row.user_id # sessions[s].uid THEN Answered(s, 403, None)
               ELSE IF row.status # COMPLETED
               THEN [sessions[s] EXCEPT !.pc = "dirty",
                                        !.row = Some([row EXCEPT !.status = COMPLETED])]
               ELSE Answered(s, 200, Some(TaskOut(row)))]
    /\ UNCHANGED <<users, tasks, nextId, clock, minted>>

\* db.commit(), first half: UPDATE tasks SET status = ... WHERE id = ...
CompleteFlush(s) ==
    /\ sessions[s].op = "complete"
    /\ sessions[s].pc = "dirty"
    /\ ~RowLocked(s)
    /\ sessions' = [sessions EXCEPT ![s] =
           IF StaleWriteFails(s) THEN Answered(s, 500, None)
           ELSE [sessions[s] EXCEPT !.pc = "flushed"]]
    /\ UNCHANGED <<users, tasks, nextId, clock, minted>>

\* db.commit(), second half
CompleteCommit(s) ==
    /\ sessions[s].op = "complete"
    /\ sessions[s].pc = "flushed"
    /\ tasks' = {IF t.id = sessions[s].id THEN [t EXCEPT !.status = COMPLETED] ELSE t :
                    t \in tasks}
    /\ sessions' = [sessions EXCEPT ![s].pc = "committed"]
    /\ UNCHANGED <<users, nextId, clock, minted>>

\* db.refresh(task), return task
CompleteRefresh(s) ==
    /\ sessions[s].op = "complete"
    /\ sessions[s].pc = "committed"
    /\ sessions' = [sessions EXCEPT ![s] =
           Answered(s, 200, Some(TaskOut(db_get(tasks, sessions[s].id)[1])))]
    /\ UNCHANGED <<users, tasks, nextId, clock, minted>>

\* the answer is sent and the session closed
CompleteReturn(s) ==
    /\ sessions[s].op = "complete"
    /\ sessions[s].pc = "done"
    /\ sessions' = [sessions EXCEPT ![s] = Idle]
    /\ UNCHANGED <<users, tasks, nextId, clock, minted>>

\* the steps of the request in session s once begun
CompleteStep(s) ==
    \/ CompleteCheck(s)
    \/ CompleteFlush(s)
    \/ CompleteCommit(s)
    \/ CompleteRefresh(s)
    \/ CompleteReturn(s)

\* two registered users and one task of either, in any status
InitComplete ==
    /\ users = TwoUsers
    /\ clock = 0
    /\ minted = NothingMinted
    /\ sessions = NoSessions
    /\ nextId = 2
    /\ \E row \in RowPool : tasks = {Task(1, row[1], row[2], row[3], row[4])}

NextComplete ==
    \E s \in Slots :
        \/ CompleteBegin(s)
        \/ CompleteStep(s)

SpecComplete == InitComplete /\ [][NextComplete]_vars

\* session s serves a complete called by the owner of a stored task
OwnerCompletes(s) ==
    /\ sessions[s].op = "complete"
    /\ \E t \in tasks : t.id = sessions[s].id /\ t.user_id = sessions[s].uid

CompletesSafe ==
    \A s \in Slots : OwnerCompletes(s) =>
        /\ sessions[s].code \in {0, 200}
        /\ sessions[s].pc = "done" =>
               /\ sessions[s].code = 200
               /\ sessions[s].body # None
               /\ sessions[s].body[1].status = COMPLETED
               /\ sessions[s].body[1] \in tasks
        /\ \/ ENABLED CompleteStep(s)
           \/ \E t \in Slots \ {s} :
                  /\ sessions[t].pc = "flushed" /\ sessions[t].id = sessions[s].id
                  /\ ENABLED CompleteStep(t)

OnlyStatusChanges ==
    /\ Cardinality(tasks') = Cardinality(tasks)
    /\ \A t \in tasks : t \in tasks' \/ [t EXCEPT !.status = COMPLETED] \in tasks'
    /\ \A t \in tasks : t.status = COMPLETED => t \in tasks'

\* C20: under every interleaving of the read, check, write and commit steps of
\* concurrent complete calls by the owner, no call is answered with an error or
\* left unable to finish, each is answered 200 with the task as stored, status
\* Completed, and no step changes anything of a task but its status to Completed.
C20_ConcurrentCompletes == []CompletesSafe /\ [][OnlyStatusChanges]_vars

\* two calls by the owner read the task before either wrote: one has committed,
\* the other has still to write
C20_Witness ==
    \E s, t \in Slots :
        /\ s # t
        /\ OwnerCompletes(s) /\ OwnerCompletes(t)
        /\ sessions[s].id = sessions[t].id
        /\ sessions[s].pc = "committed"
        /\ sessions[t].pc = "dirty"

-----------------------------------------------------------------------------
(* The tasks table under every kind of write: registrations, creates and    *)
(* updates with bodies that name an owner, null a column or break a length, *)
(* completes and deletes                                                    *)

\* bodies of POST /tasks sent here: a plain one, one naming another user as
\* owner, and ones with an empty title, an overlong title, an unknown status
WrittenCreates == {1, 3, 5, 6, 9}

\* bodies of PATCH /tasks/{id} sent here: a status change, a title change that
\* carries a user_id, a null title, a null status, an empty title, an overlong
\* title and an unknown status
WrittenPatches == {2, 3, 4, 11, 12, 14, 15}

CreateWritten ==
    /\ nextId <= MaxTasks
    /\ \E token \in SentTokens, i \in WrittenCreates :
        LET r == create_task(tasks, nextId, token, CreatePayloads[i])
        IN  /\ tasks' = r.tasks
            /\ nextId' = IF r.code = 201 THEN nextId + 1 ELSE nextId
            /\ UNCHANGED <<users, clock, minted, sessions>>

UpdateWritten ==
    \E token \in SentTokens, id \in TaskIdInputs, i \in WrittenPatches :
        LET r == update_task(tasks, token, id, UpdatePayloads[i])
        IN  /\ tasks' = r.tasks
            /\ UNCHANGED <<users, nextId, clock, minted, sessions>>

NextWrites ==
    \/ Register
    \/ CreateWritten
    \/ UpdateWritten
    \/ CompleteTask
    \/ DeleteTask

SpecWrites == Init /\ [][NextWrites]_vars

\* every task of ts that is still in ts2 has the owner it had
OwnersKept(ts, ts2) ==
    \A o \in ts, t \in ts2 : o.id = t.id => o.user_id = t.user_id

\* the id is a primary key, and whatever request is made next (a create, an
\* update with any patch, a complete or a delete, by any caller) every stored
\* task keeps its owner and a task that is added belongs to the caller
OwnerSurvivesRequest ==
    /\ \A a, b \in tasks : a.id = b.id => a = b
    /\ \A token \in SentTokens :
        /\ \A i \in DOMAIN CreatePayloads :
               LET r == create_task(tasks, nextId, token, CreatePayloads[i])
               IN  /\ OwnersKept(tasks, r.tasks)
                   /\ \A t \in r.tasks \ tasks :
                          /\ Authenticated(token) /\ t.user_id = Caller(token)
                          /\ Absent(tasks, t.id)
        /\ \A id \in TaskIdInputs :
            /\ \A i \in DOMAIN UpdatePayloads :
                   LET r == update_task(tasks, token, id, UpdatePayloads[i])
                   IN  /\ OwnersKept(tasks, r.tasks)
                       /\ \A t \in r.tasks : ~Absent(tasks, t.id)
            /\ LET r == complete_task(tasks, token, id)
               IN  /\ OwnersKept(tasks, r.tasks)
                   /\ \A t \in r.tasks : ~Absent(tasks, t.id)
            /\ delete_task(tasks, token, id).tasks \subseteq tasks

\* a step keeps the owner of every task that stays, and a task that appears has
\* a fresh id and is the task some authenticated caller's create stores, owned
\* by that caller
OwnerFixedAtCreation ==
    \A t \in tasks' :
        IF Absent(tasks, t.id)
        THEN /\ t.id = nextId /\ nextId' = nextId + 1
             /\ \E token \in SentTokens, i \in ValidCreates :
                    /\ Authenticated(token)
                    /\ t.user_id = Caller(token)
                    /\ create_task(tasks, nextId, token, CreatePayloads[i]).tasks = tasks'
        ELSE \A o \in tasks : o.id = t.id => o.user_id = t.user_id

\* C21: the owner of a stored task is the user whose create stored it: a task
\* enters the table only by a create, owned by the caller, and no create, update
\* (with any patch, one carrying a user_id included), complete or delete by any
\* user changes the owner of a task that exists.
C21_OwnershipImmutable == []OwnerSurvivesRequest /\ [][OwnerFixedAtCreation]_vars

\* user 1's task after user 1's patch that carries user_id 2 (the title is the
\* patch's, the owner still 1); the same patch from user 2 is answered 403
C21_Witness ==
    \E t \in tasks, token \in SentTokens :
        LET r == update_task(tasks, token, t.id, UpdatePayloads[15])
        IN  /\ t.user_id = 1 /\ t.title = TitleB
            /\ Authenticated(token) /\ Caller(token) = 1
            /\ 2 \in UserIds
            /\ r.code = 200 /\ r.tasks = tasks
            /\ \E other \in SentTokens :
                   /\ Caller(other) = 2
                   /\ update_task(tasks, other, t.id, UpdatePayloads[15]).code = 403

\* a title of exactly max_length characters
FullTitle == [i \in 1..MaxTitleLen |-> "a"]

\* the patches and create bodies the stored-task invariant is tried against
TriedPatches ==
    {UpdatePayloads[i] : i \in DOMAIN UpdatePayloads} \cup {[title |-> Some(FullTitle)]}
TriedCreates ==
    {CreatePayloads[i] : i \in DOMAIN CreatePayloads} \cup {[title |-> Some(FullTitle)]}

\* the row has a title of 1 to 200 characters, a status of the enumeration and
\* an owner that is the id of exactly one user
WellFormed(t) ==
    /\ Len(t.title) >= 1 /\ Len(t.title) <= 200
    /\ t.status \in {"New", "In Progress", "Completed"}
    /\ Cardinality({i \in DOMAIN users : users[i].id = t.user_id}) = 1

\* written into a row as it stands, the patch would null or mis-size the title
\* or null or mis-name the status
WouldBreak(patch) ==
    \/ /\ "title" \in DOMAIN patch
       /\ \/ patch.title = None
          \/ Len(patch.title[1]) < 1
          \/ Len(patch.title[1]) > 200
    \/ /\ "status" \in DOMAIN patch
       /\ \/ patch.status = None
          \/ patch.status[1] \notin {"New", "In Progress", "Completed"}

\* C22: every stored task has a title of 1 to 200 characters, a status that is
\* one of New, In Progress, Completed and exactly one owner, an existing user;
\* this stays so after any create, update, complete or delete that can be made
\* next, and an update whose patch would break it (a null title or status
\* included) is answered with an error response and stores nothing.
C22_StoredTasksWellFormed ==
    /\ \A t \in tasks : WellFormed(t)
    /\ \A token \in SentTokens :
        /\ \A body \in TriedCreates :
               \A t \in create_task(tasks, nextId, token, body).tasks : WellFormed(t)
        /\ \A id \in TaskIdInputs :
            /\ \A t \in complete_task(tasks, token, id).tasks : WellFormed(t)
            /\ \A t \in delete_task(tasks, token, id).tasks : WellFormed(t)
            /\ \A patch \in TriedPatches :
                   LET r == update_task(tasks, token, id, patch)
                   IN  /\ \A t \in r.tasks : WellFormed(t)
                       /\ WouldBreak(patch) =>
                              /\ r.code \in {401, 404, 403, 400, 422, 500}
                              /\ r.body # None
                              /\ r.tasks = tasks
                              /\ r.commits = 0

\* an owner's task, for which the owner's patch with a null title and the one
\* with a null status are answered 500, the one with an overlong title 422, all
\* storing nothing, and the one with a title of 200 characters is stored
C22_Witness ==
    \E old \in tasks, token \in SentTokens :
        /\ Authenticated(token) /\ Caller(token) = old.user_id
        /\ Cardinality(tasks) = 2
        /\ update_task(tasks, token, old.id, UpdatePayloads[4]).code = 500
        /\ update_task(tasks, token, old.id, UpdatePayloads[4]).tasks = tasks
        /\ update_task(tasks, token, old.id, UpdatePayloads[14]).code = 500
        /\ update_task(tasks, token, old.id, UpdatePayloads[12]).code = 422
        /\ LET r == update_task(tasks, token, old.id, [title |-> Some(FullTitle)])
           IN  r.code = 200 /\ Len(r.body.title) = 200 /\ r.body \in r.tasks

====
